---- MODULE Spec2Model ----
(***************************************************************************)
(* Model of serveit (src/src/main.rs): a single-directory HTTP file server *)
(* with generated directory listings.                                      *)
(*                                                                         *)
(* Strings and paths are sequences of bytes (0..255), so that percent      *)
(* encoding, percent decoding, UTF-8 validation and HTML escaping are      *)
(* computed the way the code computes them.  The filesystem is a function  *)
(* from canonical absolute paths (sequences of names) to nodes.            *)
(*                                                                         *)
(* A handler is an async fn: it runs up to its next .await, and the        *)
(* tokio::fs call it awaits is a step of its own.  Handlers of several     *)
(* connections are in flight at once, and the filesystem changes under     *)
(* them between their calls.                                               *)
(***************************************************************************)
EXTENDS Integers, Sequences, FiniteSets, TLC

VARIABLES
    fs,      \* the filesystem: canonical path -> [kind, data]
    changed, \* whether the filesystem has changed since the server started
    conn     \* per connection: the request in progress, the position of its
             \* handler, the handler's locals, and the response once there is one

vars == <<fs, changed, conn>>

(***************************************************************************)
(* Bytes and text                                                          *)
(***************************************************************************)

\* The printable ASCII characters, in code order starting at 32.
Chars ==
    <<" ", "!", "\"", "#", "$", "%", "&", "'", "(", ")", "*", "+", ",", "-", ".", "/",
      "0", "1", "2", "3", "4", "5", "6", "7", "8", "9", ":", ";", "<", "=", ">", "?",
      "@", "A", "B", "C", "D", "E", "F", "G", "H", "I", "J", "K", "L", "M", "N", "O",
      "P", "Q", "R", "S", "T", "U", "V", "W", "X", "Y", "Z", "[", "\\", "]", "^", "_",
      "GRAVE", "a", "b", "c", "d", "e", "f", "g", "h", "i", "j", "k", "l", "m", "n", "o",
      "p", "q", "r", "s", "t", "u", "v", "w", "x", "y", "z", "{", "|", "}", "~">>

\* The byte of an ASCII character.
Ord(c) == 31 + (CHOOSE i \in 1..Len(Chars) : Chars[i] = c)

RECURSIVE S(_)
\* The bytes of a text given as a tuple of characters.
S(t) == IF t = <<>> THEN <<>> ELSE <<Ord(Head(t))>> \o S(Tail(t))

\* Named bytes.
PCT == Ord("%")
SLASH == Ord("/")
DOT == Ord(".")
AMP == Ord("&")
LT == Ord("<")
GT == Ord(">")
QUOT == Ord("\"")
APOS == Ord("'")
Digit0 == Ord("0")
Digit9 == Ord("9")
UpperA == Ord("A")
UpperF == Ord("F")
UpperZ == Ord("Z")
LowerA == Ord("a")
LowerF == Ord("f")
LowerZ == Ord("z")
UnreservedMarks == {Ord("-"), Ord("_"), Ord("."), Ord("~")}

Drop(s, n) == SubSeq(s, n + 1, Len(s))

IsCont(b) == b >= 128 /\ b <= 191

\* Whether x may follow the lead byte h of a multi-byte UTF-8 sequence.
SecondOk(h, x) ==
    IF h = 224 THEN x >= 160 /\ x <= 191
    ELSE IF h = 237 THEN x >= 128 /\ x <= 159
    ELSE IF h = 240 THEN x >= 144 /\ x <= 191
    ELSE IF h = 244 THEN x >= 128 /\ x <= 143
    ELSE IsCont(x)

\* The first chunk of a non-empty byte string: one well-formed UTF-8
\* character, or the longest prefix of one that the bytes break off from.
Utf8Step(b) ==
    LET h == b[1]
        at(i) == IF i <= Len(b) THEN b[i] ELSE 0
        width == IF h < 128 THEN 1
                 ELSE IF h >= 194 /\ h <= 223 THEN 2
                 ELSE IF h >= 224 /\ h <= 239 THEN 3
                 ELSE IF h >= 240 /\ h <= 244 THEN 4
                 ELSE 0
    IN IF width = 1 THEN [valid |-> TRUE, len |-> 1]
       ELSE IF width = 0 \/ ~SecondOk(h, at(2)) THEN [valid |-> FALSE, len |-> 1]
       ELSE IF width = 2 THEN [valid |-> TRUE, len |-> 2]
       ELSE IF ~IsCont(at(3)) THEN [valid |-> FALSE, len |-> 2]
       ELSE IF width = 3 THEN [valid |-> TRUE, len |-> 3]
       ELSE IF ~IsCont(at(4)) THEN [valid |-> FALSE, len |-> 3]
       ELSE [valid |-> TRUE, len |-> 4]

RECURSIVE IsValidUtf8(_)
\* String::from_utf8's acceptance test: well-formed UTF-8.
IsValidUtf8(b) ==
    IF b = <<>> THEN TRUE
    ELSE LET step == Utf8Step(b)
         IN step.valid /\ IsValidUtf8(Drop(b, step.len))

\* U+FFFD REPLACEMENT CHARACTER
Replacement == <<239, 191, 189>>

RECURSIVE to_string_lossy(_)
\* OsStr::to_string_lossy: every ill-formed chunk becomes U+FFFD.
to_string_lossy(b) ==
    IF b = <<>> THEN <<>>
    ELSE LET step == Utf8Step(b)
         IN (IF step.valid THEN SubSeq(b, 1, step.len) ELSE Replacement)
            \o to_string_lossy(Drop(b, step.len))

(***************************************************************************)
(* Percent encoding (urlencoding::encode, urlencoding::decode) and the     *)
(* percent decoding of axum's Path extractor                               *)
(***************************************************************************)

IsUnreserved(b) ==
    \/ b >= UpperA /\ b <= UpperZ
    \/ b >= LowerA /\ b <= LowerZ
    \/ b >= Digit0 /\ b <= Digit9
    \/ b \in UnreservedMarks

to_hex_digit(n) == IF n < 10 THEN Digit0 + n ELSE UpperA + (n - 10)

\* -1 stands for None.
from_hex_digit(b) ==
    IF b >= Digit0 /\ b <= Digit9 THEN b - Digit0
    ELSE IF b >= UpperA /\ b <= UpperF THEN b - UpperA + 10
    ELSE IF b >= LowerA /\ b <= LowerF THEN b - LowerA + 10
    ELSE -1

RECURSIVE UrlEncode(_)
\* urlencoding::encode: every byte but A-Z a-z 0-9 - _ . ~ becomes %XX.
UrlEncode(s) ==
    IF s = <<>> THEN <<>>
    ELSE LET b == s[1] IN
         (IF IsUnreserved(b) THEN <<b>>
          ELSE <<PCT, to_hex_digit(b \div 16), to_hex_digit(b % 16)>>)
         \o UrlEncode(Tail(s))

RECURSIVE decode_binary(_)
\* urlencoding::decode_binary: %XX with two hexadecimal digits becomes one
\* byte; a "%" that starts no such sequence is copied through unchanged.
decode_binary(data) ==
    IF data = <<>> THEN <<>>
    ELSE IF data[1] # PCT THEN <<data[1]>> \o decode_binary(Tail(data))
    ELSE LET rest == Tail(data) IN
         IF Len(rest) < 2 THEN <<PCT>> \o rest
         ELSE IF from_hex_digit(rest[1]) = -1
              THEN <<PCT>> \o decode_binary(rest)
         ELSE IF from_hex_digit(rest[2]) = -1
              THEN <<PCT, rest[1]>> \o decode_binary(Drop(rest, 1))
         ELSE <<from_hex_digit(rest[1]) * 16 + from_hex_digit(rest[2])>>
              \o decode_binary(Drop(rest, 2))

\* urlencoding::decode: decode_binary, then String::from_utf8.
UrlDecode(rel) ==
    LET b == decode_binary(rel) IN
    IF IsValidUtf8(b) THEN [ok |-> TRUE, s |-> b] ELSE [ok |-> FALSE, s |-> <<>>]

RECURSIVE percent_decode(_)
\* percent_encoding::percent_decode, which axum's Path extractor applies to
\* the captured segment before the handler sees it.
percent_decode(raw) ==
    IF raw = <<>> THEN <<>>
    ELSE IF /\ raw[1] = PCT
            /\ Len(raw) >= 3
            /\ from_hex_digit(raw[2]) # -1
            /\ from_hex_digit(raw[3]) # -1
         THEN <<from_hex_digit(raw[2]) * 16 + from_hex_digit(raw[3])>>
              \o percent_decode(Drop(raw, 3))
    ELSE <<raw[1]>> \o percent_decode(Tail(raw))

\* AxumPath(path): AxumPath<String> -- the decoded capture, or a rejection
\* when the decoded bytes are not UTF-8.
AxumPath(raw) ==
    LET b == percent_decode(raw) IN
    IF IsValidUtf8(b) THEN [ok |-> TRUE, s |-> b] ELSE [ok |-> FALSE, s |-> <<>>]

(***************************************************************************)
(* html_escape                                                             *)
(***************************************************************************)

EntAmp == S(<<"&", "a", "m", "p", ";">>)
EntLt == S(<<"&", "l", "t", ";">>)
EntGt == S(<<"&", "g", "t", ";">>)
EntQuot == S(<<"&", "q", "u", "o", "t", ";">>)
EntApos == S(<<"&", "#", "3", "9", ";">>)

RECURSIVE Replace(_, _, _)
\* str::replace(from, to) for a one-byte pattern.
Replace(s, from, to) ==
    IF s = <<>> THEN <<>>
    ELSE (IF s[1] = from THEN to ELSE <<s[1]>>) \o Replace(Tail(s), from, to)

html_escape_amp_last(s) ==
    Replace(Replace(Replace(Replace(Replace(s,
        LT, EntLt),
        GT, EntGt),
        QUOT, EntQuot),
        APOS, EntApos),
        AMP, EntAmp)

html_escape(s) ==
    Replace(Replace(Replace(Replace(Replace(s,
        AMP, EntAmp),
        LT, EntLt),
        GT, EntGt),
        QUOT, EntQuot),
        APOS, EntApos)

(***************************************************************************)
(* Paths: PathBuf::join, Path equality, Path::extension, and the           *)
(* filesystem's own resolution of a path                                   *)
(***************************************************************************)

CurDir == <<DOT>>
ParentDir == <<DOT, DOT>>

RECURSIVE Split(_)
\* The segments of a path between its separators (empty segments included).
Split(p) ==
    IF \A i \in 1..Len(p) : p[i] # SLASH THEN <<p>>
    ELSE LET i == CHOOSE k \in 1..Len(p) :
                      p[k] = SLASH /\ \A j \in 1..(k - 1) : p[j] # SLASH
         IN <<SubSeq(p, 1, i - 1)>> \o Split(Drop(p, i))

is_absolute(p) == p # <<>> /\ p[1] = SLASH

\* PathBuf::join / PathBuf::push: an absolute argument replaces the base;
\* otherwise it is appended, after a separator when the base lacks one.
PathJoin(base, p) ==
    IF is_absolute(p) THEN p
    ELSE IF base # <<>> /\ base[Len(base)] # SLASH THEN base \o <<SLASH>> \o p
    ELSE base \o p

\* Path::components of an absolute path: repeated separators, a trailing
\* separator and "." segments are dropped; ".." segments are kept.
PathComponents(p) ==
    [has_root |-> is_absolute(p),
     parts |-> SelectSeq(Split(p), LAMBDA c : c # <<>> /\ c # CurDir)]

\* impl PartialEq for Path: equality of the component sequences.
PathEq(p, q) == PathComponents(p) = PathComponents(q)

\* Path::file_name: the last component, unless it is "..".  <<>> for None.
file_name(p) ==
    LET parts == PathComponents(p).parts IN
    IF parts = <<>> \/ parts[Len(parts)] = ParentDir THEN <<>>
    ELSE parts[Len(parts)]

\* Path::extension: what follows the last "." of the file name, when that
\* "." is not the name's first byte.  <<>> for None.
extension(p) ==
    LET name == file_name(p)
        dots == {i \in 1..Len(name) : name[i] = DOT}
        last == IF dots = {} THEN 0 ELSE CHOOSE i \in dots : \A j \in dots : j <= i
    IN IF last <= 1 THEN <<>> ELSE Drop(name, last)

to_ascii_lowercase(s) ==
    [i \in 1..Len(s) |-> IF s[i] >= UpperA /\ s[i] <= UpperZ THEN s[i] + 32 ELSE s[i]]

ExtTxt == S(<<"t", "x", "t">>)
ExtHtml == S(<<"h", "t", "m", "l">>)

mime_always_octet_stream(p) == "application/octet-stream"

\* mime_guess::from_path(p).first_or_octet_stream(): the type the table
\* has for the lower-cased extension (of its entries, those for txt and
\* html are written out), application/octet-stream when the path has no
\* extension or the table has no entry for it.
mime_guess(p) ==
    LET ext == to_ascii_lowercase(extension(p)) IN
    IF ext = ExtTxt THEN "text/plain"
    ELSE IF ext = ExtHtml THEN "text/html"
    ELSE "application/octet-stream"

NoNode == [found |-> FALSE, path |-> <<>>]

RECURSIVE Walk(_, _, _)
\* The filesystem's resolution of the segments `segs` from directory `cur`:
\* every step needs a directory to step from; "" and "." stay, ".." goes to
\* the parent ("/" is its own parent), a name goes to the child of that name.
Walk(fsys, segs, cur) ==
    IF segs = <<>> THEN [found |-> TRUE, path |-> cur]
    ELSE IF fsys[cur].kind # "dir" THEN NoNode
    ELSE LET c == Head(segs) IN
         IF c = <<>> \/ c = CurDir THEN Walk(fsys, Tail(segs), cur)
         ELSE IF c = ParentDir
              THEN Walk(fsys, Tail(segs),
                        IF cur = <<>> THEN cur ELSE SubSeq(cur, 1, Len(cur) - 1))
         ELSE IF Append(cur, c) \in DOMAIN fsys
              THEN Walk(fsys, Tail(segs), Append(cur, c))
         ELSE NoNode

\* The node an absolute path names, if any.
Lookup(fsys, p) ==
    IF is_absolute(p) THEN Walk(fsys, Split(Drop(p, 1)), <<>>) ELSE NoNode

\* The names of the immediate children of a directory node.
ChildNames(fsys, dir) ==
    {q[Len(q)] : q \in {r \in DOMAIN fsys :
                           Len(r) = Len(dir) + 1 /\ SubSeq(r, 1, Len(dir)) = dir}}

\* Whether p names a directory in the filesystem.
is_dir_entry(fsys, p) == p \in DOMAIN fsys /\ fsys[p].kind = "dir"

(***************************************************************************)
(* Responses                                                               *)
(***************************************************************************)

\* (StatusCode, &'static str).into_response()
TextResponse(status, text) ==
    [status |-> status, ctype |-> "text/plain; charset=utf-8",
     text |-> text, bytes |-> <<>>, html |-> <<>>]

BadRequestResponse == TextResponse(400, "Bad URL encoding")
NotFoundAsForbidden == TextResponse(403, "Not found")
NotFoundResponse == TextResponse(404, "Not found")
CannotReadFileResponse == TextResponse(403, "Cannot read file")
CannotReadDirResponse == TextResponse(403, "Cannot read directory")

\* Response::builder().status(OK).header(CONTENT_TYPE, mime).body(bytes)
FileResponse(mime, bytes) ==
    [status |-> 200, ctype |-> mime, text |-> "", bytes |-> bytes, html |-> <<>>]

\* (StatusCode::OK, Html(html)).into_response()
HtmlResponse(html) ==
    [status |-> 200, ctype |-> "text/html; charset=utf-8",
     text |-> "", bytes |-> <<>>, html |-> html]

\* The rejection of axum's Path extractor.
PathRejection == TextResponse(400, "Invalid UTF-8 in path")

NoResponse == [status |-> 0, ctype |-> "", text |-> "", bytes |-> <<>>, html |-> <<>>]

(***************************************************************************)
(* list_dir: sorting and rendering                                         *)
(***************************************************************************)

\* The document is the sequence of the pieces pushed onto `html`: literal
\* text, or one list item with its href and its label.
Lit(text) == [tag |-> "lit", lit |-> text, href |-> <<>>, text |-> <<>>]
Li(href, text) == [tag |-> "li", lit |-> "", href |-> href, text |-> text]

Preamble ==
    << Lit("<!doctype html><html><head><meta charset='utf-8'>"),
       Lit("<title>Index</title>"),
       Lit("<style>body{font-family:system-ui,Arial,sans-serif} a{text-decoration:none}</style>"),
       Lit("</head><body>"),
       Lit("<h1>Index</h1><ul>") >>
UpLink == Lit("<li><a href=\"../\">../</a></li>")
Closing == Lit("</ul></body></html>")

RECURSIVE BytesLess(_, _)
\* a < b in the order of str::cmp: byte-wise lexicographic.
BytesLess(a, b) ==
    IF b = <<>> THEN FALSE
    ELSE IF a = <<>> THEN TRUE
    ELSE IF a[1] # b[1] THEN a[1] < b[1]
    ELSE BytesLess(Tail(a), Tail(b))

RECURSIVE InsertByName(_, _)
InsertByName(v, x) ==
    IF v = <<>> THEN <<x>>
    ELSE IF BytesLess(x.name, Head(v).name) THEN <<x>> \o v
    ELSE <<Head(v)>> \o InsertByName(Tail(v), x)

RECURSIVE SortByName(_)
\* items.sort_by(|a, b| a.0.cmp(&b.0)): a stable sort on the name alone.
SortByName(v) ==
    IF v = <<>> THEN <<>>
    ELSE InsertByName(SortByName(SubSeq(v, 1, Len(v) - 1)), v[Len(v)])

render_item_href_from_label(name, is_dir) ==
    LET display == IF is_dir THEN name \o <<SLASH>> ELSE name
    IN Li(html_escape(display), html_escape(display))

\* The body of the rendering loop: display and href are both derived from
\* the raw name.
render_item(name, is_dir) ==
    LET display == IF is_dir THEN name \o <<SLASH>> ELSE name
        href == IF is_dir THEN UrlEncode(name) \o <<SLASH>> ELSE UrlEncode(name)
    IN Li(href, html_escape(display))

\* The document: the preamble, the up-link unless dir = root, one list item
\* per sorted entry, the closing tags.
render_listing(root, dir, sorted) ==
    Preamble
    \o (IF ~PathEq(dir, root) THEN <<UpLink>> ELSE <<>>)
    \o [i \in 1..Len(sorted) |-> render_item(sorted[i].name, sorted[i].is_dir)]
    \o <<Closing>>

(***************************************************************************)
(* A connection and the handler that runs on it                            *)
(***************************************************************************)

NoLink ==
    [followed |-> FALSE, dir |-> <<>>, name |-> <<>>, is_dir |-> FALSE, clean |-> FALSE]

\* A connection on which no request is in progress.  Of a request in
\* progress it holds:
\*   pc       where the handler is: the tokio::fs call it awaits ("metadata",
\*            "read", "read_dir", "next_entry", "file_type"), or "done" once
\*            it has returned its response
\*   path     the raw URL path after the leading "/"
\*   dir      serve_rel_path's `candidate`, which list_dir calls `dir`
\*   at       the directory node that `entries` is an open stream of
\*   opened   the names that directory held when it was opened
\*   seen     the names `entries` has yielded
\*   pending  the file name of the entry `e` whose file_type is awaited
\*   items    list_dir's `items`: as pushed while the loop runs, sorted after
\*   ops      the tokio::fs calls awaited so far, in order, with their outcome
\*   resp     the response
\*   link     the listing entry whose link the client followed, if it did
IdleConn ==
    [pc |-> "idle", path |-> <<>>, dir |-> <<>>, at |-> <<>>, opened |-> {},
     seen |-> {}, pending |-> <<>>, items |-> <<>>, ops |-> <<>>,
     resp |-> NoResponse, link |-> NoLink]

FsOp(op, node, ok) == [op |-> op, node |-> node, ok |-> ok]

\* Where a handler is when it first gives up control: returned, or awaiting
\* the metadata of `candidate`.
Responded(response) == [pc |-> "done", dir |-> <<>>, resp |-> response]
AwaitingMetadata(candidate) == [pc |-> "metadata", dir |-> candidate, resp |-> NoResponse]

\* serve_rel_path from the result of urlencoding::decode to its first await.
serve_decoded(root, decoded) ==
    IF ~decoded.ok THEN Responded(BadRequestResponse)
    ELSE AwaitingMetadata(PathJoin(root, decoded.s))

\* serve_rel_path up to its first await.
serve_rel_path(root, rel) == serve_decoded(root, UrlDecode(rel))

serve_root(root) == serve_rel_path(root, <<>>)

\* serve_path from the result of the Path extractor on.
serve_extracted(root, path) ==
    IF ~path.ok THEN Responded(PathRejection)
    ELSE serve_rel_path(root, path.s)

\* serve_path: the extractor decodes the captured segment (or rejects the
\* request), then serve_rel_path decodes what it is given.
serve_path(root, raw) == serve_extracted(root, AxumPath(raw))

\* The router: "/" goes to serve_root, "/*path" to serve_path.
Route(root, raw) ==
    IF raw = <<>> THEN serve_root(root) ELSE serve_path(root, raw)

\* The connection once the handler of a request for `raw` first gave up control.
Started(raw, lnk, first) ==
    [IdleConn EXCEPT !.pc = first.pc, !.path = raw, !.dir = first.dir,
                     !.resp = first.resp, !.link = lnk]

\* The awaited call `op` completed and the handler returns `response`; its
\* locals are dropped, `sorted` is what `items` held at the end.
Return(t, op, response, sorted) ==
    [t EXCEPT !.pc = "done", !.dir = <<>>, !.at = <<>>, !.opened = {},
              !.seen = {}, !.pending = <<>>, !.items = sorted,
              !.ops = Append(@, op), !.resp = response]

\* The awaited call `op` completed and the handler runs on to the await of `pc`.
Await(t, op, pc) == [t EXCEPT !.pc = pc, !.ops = Append(@, op)]

\* serve_rel_path from the completion of tokio::fs::metadata to the next
\* await: Err is 404; a directory goes to list_dir, which awaits read_dir;
\* anything else is read.
metadata_done(fsys, t, node, ok) ==
    IF ~(node.found /\ ok)
    THEN Return(t, FsOp("metadata", node, FALSE), NotFoundResponse, <<>>)
    ELSE IF fsys[node.path].kind = "dir"
    THEN Await(t, FsOp("metadata", node, TRUE), "read_dir")
    ELSE Await(t, FsOp("metadata", node, TRUE), "read")

\* serve_rel_path from the completion of tokio::fs::read on; the read fails
\* when the path names no file any more, or for a reason of its own.
read_done(fsys, t, node, ok) ==
    IF node.found /\ ok /\ ~is_dir_entry(fsys, node.path)
    THEN Return(t, FsOp("read", node, TRUE),
                FileResponse(mime_guess(t.dir), fsys[node.path].data), <<>>)
    ELSE Return(t, FsOp("read", node, FALSE), CannotReadFileResponse, <<>>)

\* list_dir from the completion of tokio::fs::read_dir to the first
\* next_entry.
read_dir_done(fsys, t, node, ok) ==
    IF node.found /\ ok /\ is_dir_entry(fsys, node.path)
    THEN [Await(t, FsOp("read_dir", node, TRUE), "next_entry")
             EXCEPT !.at = node.path, !.opened = ChildNames(fsys, node.path)]
    ELSE Return(t, FsOp("read_dir", node, FALSE), CannotReadDirResponse, <<>>)

\* The names next_entry may yield next: what the directory held when it was
\* opened and what it holds now, less what was yielded (whether an entry
\* added or removed since the opening is yielded is up to the filesystem).
may_yield(fsys, t) == (t.opened \cup ChildNames(fsys, t.at)) \ t.seen

\* Whether next_entry may report the end of the directory: every entry that
\* was there at the opening and still is has been yielded.
may_end(fsys, t) == (t.opened \cap ChildNames(fsys, t.at)) \subseteq t.seen

\* The loop body up to its await: next_entry yielded Ok(Some(e)), e's file
\* name is taken, e.file_type() is awaited.
entry_yielded(t, name) ==
    [Await(t, FsOp("next_entry", [found |-> TRUE, path |-> Append(t.at, name)], TRUE),
           "file_type")
        EXCEPT !.pending = name, !.seen = @ \cup {name}]

\* The rest of the loop body: is_dir is what file_type says, false when it
\* fails (unwrap_or(false)); (name, is_dir) is pushed; next_entry is awaited.
file_type_done(fsys, t, ok) ==
    [Await(t, FsOp("file_type", [found |-> TRUE, path |-> Append(t.at, t.pending)], ok),
           "next_entry")
        EXCEPT !.pending = <<>>,
               !.items = Append(@, [name |-> to_string_lossy(t.pending),
                                    is_dir |-> ok /\ is_dir_entry(fsys, Append(t.at, t.pending))])]

\* list_dir from the next_entry that yielded no entry, be it Ok(None) or
\* Err, to the end: the loop is left, the items are sorted and rendered.
list_dir_done(root, t, ok) ==
    Return(t, FsOp("next_entry", [found |-> TRUE, path |-> t.at], ok),
           HtmlResponse(render_listing(root, t.dir, SortByName(t.items))),
           SortByName(t.items))

(***************************************************************************)
(* The served tree and the requests                                        *)
(***************************************************************************)

\* How many requests are in flight at once.
MaxInFlight == 2
\* How many parts a request path is built from.
MaxReqParts == 2
\* How many parts an entry name is built from (in SpecItem).
MaxNameParts == 3

RECURSIVE Strings(_, _)
\* The concatenations of at most n of the given parts.
Strings(parts, n) ==
    IF n = 0 THEN {<<>>}
    ELSE LET shorter == Strings(parts, n - 1)
         IN shorter \cup {s \o p : s \in shorter, p \in parts}

Name_s == S(<<"s">>)
Name_r == S(<<"r">>)
Name_d == S(<<"d">>)
Name_a_txt == S(<<"a", ".", "t", "x", "t">>)
Name_pct61 == S(<<"%", "6", "1">>)
Name_b == S(<<"b">>)

\* AppState.root: the canonicalized directory, /s/r.
Root == S(<<"/", "s", "/", "r">>)
RootNode == <<Name_s, Name_r>>

Dir == [kind |-> "dir", data |-> <<>>]
File(data) == [kind |-> "file", data |-> data]

\* What is always there: the root /s/r with d/ in it, and in d/ a file
\* literally named %61 and a file b, whose name has no extension.
BaseTree ==
    { <<<<>>, Dir>>,
      <<<<Name_s>>, Dir>>,
      <<RootNode, Dir>>,
      <<RootNode \o <<Name_d>>, Dir>>,
      <<RootNode \o <<Name_d, Name_pct61>>, File(S(<<"L">>))>>,
      <<RootNode \o <<Name_d, Name_b>>, File(S(<<"B">>))>> }

\* What comes and goes: the file a.txt in the root.
OptionalTree ==
    { <<RootNode \o <<Name_a_txt>>, File(S(<<"h", "i">>))>> }

\* The filesystem holding the given <<path, node>> pairs.
MkFs(tree) ==
    [p \in {t[1] : t \in tree} |-> (CHOOSE t \in tree : t[1] = p)[2]]

Trees == {MkFs(BaseTree \cup extra) : extra \in SUBSET OptionalTree}

\* Every node there can be, each with the kind and the contents it has
\* whenever it exists.
World == MkFs(BaseTree \cup OptionalTree)

\* The paths of the nodes that come and go.
Mutable == {t[1] : t \in OptionalTree}

\* The parts request paths are built from: the directory d with its
\* separator, "..", the names a.txt and b, a lone "%", the escapes of "%" and of
\* "/", and the hexadecimal digits FF (after "%", a byte that is not UTF-8).
ReqParts ==
    { S(<<"d", "/">>), S(<<".", ".">>), Name_a_txt, Name_b,
      S(<<"%">>), S(<<"%", "2", "5">>), S(<<"%", "2", "F">>), S(<<"F", "F">>) }

\* The raw URL paths (what follows the leading "/") that clients send.
RequestPaths == Strings(ReqParts, MaxReqParts)

\* The entry names of SpecItem: HTML-significant and URL-significant
\* characters, text that looks like an entity or a percent sequence, a
\* two-byte UTF-8 character, and a byte that is not UTF-8.
NameParts ==
    { S(<<"&">>), S(<<"<">>), S(<<">">>), S(<<"\"">>), S(<<"'">>), S(<<"l", "t", ";">>),
      S(<<"%">>), S(<<"2", "0">>), S(<<" ">>), S(<<"#">>), S(<<"?">>), <<195, 169>>, <<255>> }

EntryNames == Strings(NameParts, MaxNameParts) \ {<<>>}

\* A root directory holding one entry.
ItemTree(name, node) ==
    MkFs({ <<<<>>, Dir>>, <<<<Name_s>>, Dir>>, <<RootNode, Dir>>,
           <<RootNode \o <<name>>, node>> })

(***************************************************************************)
(* The state machine                                                       *)
(***************************************************************************)

Init ==
    /\ fs \in Trees
    /\ changed = FALSE
    /\ conn = [c \in 1..MaxInFlight |-> IdleConn]

\* The connection c moves to t; the filesystem is only looked at.
Step(c, t) ==
    /\ conn' = [conn EXCEPT ![c] = t]
    /\ UNCHANGED <<fs, changed>>

\* A request for `raw` arrives on c: the router picks the handler, which
\* runs up to its first await.
Accept(c, raw, lnk) == Step(c, Started(raw, lnk, Route(Root, raw)))

\* GET /
GetRoot ==
    \E c \in DOMAIN conn :
        /\ conn[c].pc = "idle"
        /\ Accept(c, <<>>, NoLink)

\* GET /<path>
GetPath ==
    \E c \in DOMAIN conn :
        /\ conn[c].pc = "idle"
        /\ \E raw \in RequestPaths \ {<<>>} : Accept(c, raw, NoLink)

\* tokio::fs::metadata(&candidate) completes, with Ok or with Err.
Metadata ==
    \E c \in DOMAIN conn :
        /\ conn[c].pc = "metadata"
        /\ \E ok \in BOOLEAN :
             Step(c, metadata_done(fs, conn[c], Lookup(fs, conn[c].dir), ok))

\* tokio::fs::read(&candidate) completes.
Read ==
    \E c \in DOMAIN conn :
        /\ conn[c].pc = "read"
        /\ \E ok \in BOOLEAN :
             Step(c, read_done(fs, conn[c], Lookup(fs, conn[c].dir), ok))

\* tokio::fs::read_dir(dir) completes.
ReadDir ==
    \E c \in DOMAIN conn :
        /\ conn[c].pc = "read_dir"
        /\ \E ok \in BOOLEAN :
             Step(c, read_dir_done(fs, conn[c], Lookup(fs, conn[c].dir), ok))

\* entries.next_entry() completes with Ok(Some(e)); the entries come in
\* whatever order the filesystem yields them.
NextEntry ==
    \E c \in DOMAIN conn :
        /\ conn[c].pc = "next_entry"
        /\ \E name \in may_yield(fs, conn[c]) : Step(c, entry_yielded(conn[c], name))

\* entries.next_entry() completes with Ok(None), the end of the directory,
\* or with Err; either ends the loop.
EndOfEntries ==
    \E c \in DOMAIN conn :
        /\ conn[c].pc = "next_entry"
        /\ \E ok \in BOOLEAN :
             /\ ok => may_end(fs, conn[c])
             /\ Step(c, list_dir_done(Root, conn[c], ok))

\* e.file_type() completes.
FileType ==
    \E c \in DOMAIN conn :
        /\ conn[c].pc = "file_type"
        /\ \E ok \in BOOLEAN : Step(c, file_type_done(fs, conn[c], ok))

\* The list items of a rendered document, in order.
ListItems(html) == SelectSeq(html, LAMBDA piece : piece.tag = "li")

\* A path at which relative hrefs resolve by concatenation.
IsDirUrl(path) == IF path = <<>> THEN TRUE ELSE path[Len(path)] = SLASH

\* No awaited call of the request on t failed.
NoFsError(t) == \A k \in 1..Len(t.ops) : t.ops[k].ok

\* A client that was served a listing at "/" or at a path ending in "/"
\* follows the link of one of its entries: its next request on the
\* connection is GET /<path><href>.
FollowLink ==
    \E c \in DOMAIN conn :
        /\ conn[c].pc = "done"
        /\ conn[c].resp.status = 200
        /\ conn[c].resp.html # <<>>
        /\ IsDirUrl(conn[c].path)
        /\ \E i \in 1..Len(conn[c].items) :
             Accept(c, conn[c].path \o ListItems(conn[c].resp.html)[i].href,
                    [followed |-> TRUE, dir |-> conn[c].ops[1].node.path,
                     name |-> conn[c].items[i].name,
                     is_dir |-> conn[c].items[i].is_dir,
                     clean |-> NoFsError(conn[c])])

\* The response has been sent; nothing of the request is kept.
Finish ==
    \E c \in DOMAIN conn :
        /\ conn[c].pc = "done"
        /\ Step(c, IdleConn)

\* Something outside the server creates a file.
Create ==
    \E p \in Mutable \ DOMAIN fs :
        /\ fs' = [q \in DOMAIN fs \cup {p} |-> World[q]]
        /\ changed' = TRUE
        /\ UNCHANGED conn

\* Something outside the server removes a file.
Remove ==
    \E p \in Mutable \cap DOMAIN fs :
        /\ fs' = [q \in DOMAIN fs \ {p} |-> fs[q]]
        /\ changed' = TRUE
        /\ UNCHANGED conn

Next ==
    \/ GetRoot
    \/ GetPath
    \/ Metadata
    \/ Read
    \/ ReadDir
    \/ NextEntry
    \/ EndOfEntries
    \/ FileType
    \/ FollowLink
    \/ Finish
    \/ Create
    \/ Remove

Spec == Init /\ [][Next]_vars

\* The listing of a root directory that holds one entry of any name.
InitItem ==
    /\ \E name \in EntryNames, node \in {Dir, File(S(<<"x">>))} : fs = ItemTree(name, node)
    /\ changed = FALSE
    /\ conn = [c \in {1} |-> IdleConn]

NextItem ==
    \/ GetRoot
    \/ Metadata
    \/ ReadDir
    \/ NextEntry
    \/ EndOfEntries
    \/ FileType
    \/ Finish

SpecItem == InitItem /\ [][NextItem]_vars

(***************************************************************************)
(* What the claims speak of                                                *)
(***************************************************************************)

\* The request on c has been answered.
Served(c) == conn[c].pc = "done"

\* The response on c is a directory listing.
Listing(c) == Served(c) /\ conn[c].resp.status = 200 /\ conn[c].resp.html # <<>>

\* The filesystem node the request's path resolved to (the node of the
\* metadata lookup, which comes first whenever the filesystem is consulted).
Target(c) == conn[c].ops[1].node

\* No awaited call of the request on t failed on a node that exists: the
\* only failure, if any, is that of looking up what is not there.
NoFault(t) == \A k \in 1..Len(t.ops) : t.ops[k].node.found => t.ops[k].ok

UpLinkCount(c) == Len(SelectSeq(conn[c].resp.html, LAMBDA piece : piece = UpLink))

IsHex(b) == from_hex_digit(b) # -1

\* A "%" that is not followed by two hexadecimal digits, or escapes that
\* decode to bytes that are not UTF-8.
InvalidPercentEncoding(s) ==
    \/ \E i \in 1..Len(s) :
         s[i] = PCT /\ ~(i + 2 <= Len(s) /\ IsHex(s[i + 1]) /\ IsHex(s[i + 2]))
    \/ ~IsValidUtf8(percent_decode(s))

IsPrefix(pre, s) == Len(pre) <= Len(s) /\ SubSeq(s, 1, Len(pre)) = pre
IsSuffix(suf, s) == Len(suf) <= Len(s) /\ SubSeq(s, Len(s) - Len(suf) + 1, Len(s)) = suf

Entities == {EntAmp, EntLt, EntGt, EntQuot, EntApos}

RECURSIVE HtmlUnescape(_)
\* The text an HTML parser reads from escaped text: each of the five
\* entities stands for its character, every other byte for itself.
HtmlUnescape(s) ==
    IF s = <<>> THEN <<>>
    ELSE IF IsPrefix(EntAmp, s) THEN <<AMP>> \o HtmlUnescape(Drop(s, Len(EntAmp)))
    ELSE IF IsPrefix(EntLt, s) THEN <<LT>> \o HtmlUnescape(Drop(s, Len(EntLt)))
    ELSE IF IsPrefix(EntGt, s) THEN <<GT>> \o HtmlUnescape(Drop(s, Len(EntGt)))
    ELSE IF IsPrefix(EntQuot, s) THEN <<QUOT>> \o HtmlUnescape(Drop(s, Len(EntQuot)))
    ELSE IF IsPrefix(EntApos, s) THEN <<APOS>> \o HtmlUnescape(Drop(s, Len(EntApos)))
    ELSE <<s[1]>> \o HtmlUnescape(Tail(s))

\* The name an entry is displayed under.
Display(item) == IF item.is_dir THEN item.name \o <<SLASH>> ELSE item.name

\* An href without the trailing "/" of a directory entry.
HrefName(item, href) ==
    IF item.is_dir /\ IsSuffix(<<SLASH>>, href) THEN SubSeq(href, 1, Len(href) - 1)
    ELSE href

\* The Content-Type expected for a file name: .txt is text, a name with no
\* extension to look up is application/octet-stream.
ExpectedType(name) ==
    IF IsSuffix(S(<<".", "t", "x", "t">>), name) /\ Len(name) > 4 THEN "text/plain"
    ELSE "application/octet-stream"

(***************************************************************************)
(* The claims                                                              *)
(***************************************************************************)

\* C1: a directory listing contains the up-link item exactly once when the
\* directory listed is not the server root, and not at all when it is the
\* root, whatever path the request used to name the directory.  (Stated of
\* the listings during which no awaited call failed, which the claim
\* includes.)
C1_UpLinkIffNotRoot ==
    \A c \in DOMAIN conn :
        (Listing(c) /\ NoFsError(conn[c]))
        => UpLinkCount(c) = (IF Target(c).path = RootNode THEN 0 ELSE 1)

\* C2: a request whose path contains invalid percent-encoding is answered
\* with status 400 and no filesystem lookup is made for it.
C2_InvalidEncodingIs400 ==
    \A c \in DOMAIN conn :
        (Served(c) /\ InvalidPercentEncoding(conn[c].path))
        => (conn[c].resp.status = 400 /\ conn[c].ops = <<>>)

\* C3: whatever is served with status 200 lies at or under the parent
\* directory of the server root.  (Stated of the requests during which no
\* awaited call failed, which the claim includes.)
C3_ServedWithinParentBoundary ==
    \A c \in DOMAIN conn :
        (Served(c) /\ conn[c].resp.status = 200 /\ NoFsError(conn[c]))
        => IsPrefix(<<Name_s>>, Target(c).path)

\* C4: a request that resolves to an existing non-directory gets, when the
\* read succeeds, status 200 with the Content-Type of the file's extension
\* (application/octet-stream when unknown) and the file's bytes as body;
\* when the read fails after the metadata lookup succeeded (the file
\* vanished in between, or cannot be read), it gets 403.
C4_FileServedOrForbidden ==
    \A c \in DOMAIN conn :
        (/\ Served(c)
         /\ conn[c].ops # <<>>
         /\ Target(c).found
         /\ conn[c].ops[1].ok
         /\ World[Target(c).path].kind = "file")
        => /\ Len(conn[c].ops) = 2
           /\ conn[c].ops[2].op = "read"
           /\ IF conn[c].ops[2].ok
              THEN /\ conn[c].ops[2].node = Target(c)
                   /\ conn[c].resp.status = 200
                   /\ conn[c].resp.ctype = ExpectedType(Target(c).path[Len(Target(c).path)])
                   /\ conn[c].resp.bytes = World[Target(c).path].data
              ELSE conn[c].resp.status = 403

\* C4 witness: the file b of d/, whose name has no extension, was served
\* as application/octet-stream with its byte, and a.txt was served on the
\* other connection as text with its two bytes.
C4_Witness ==
    \E c, other \in DOMAIN conn :
        /\ Served(c)
        /\ conn[c].ops # <<>>
        /\ Target(c) = [found |-> TRUE, path |-> RootNode \o <<Name_d, Name_b>>]
        /\ Len(conn[c].ops) = 2
        /\ conn[c].ops[2].ok
        /\ conn[c].resp.status = 200
        /\ conn[c].resp.ctype = "application/octet-stream"
        /\ conn[c].resp.bytes = S(<<"B">>)
        /\ Served(other)
        /\ conn[other].ops # <<>>
        /\ Target(other) = [found |-> TRUE, path |-> RootNode \o <<Name_a_txt>>]
        /\ Len(conn[other].ops) = 2
        /\ conn[other].ops[2].ok
        /\ conn[other].resp.status = 200
        /\ conn[other].resp.ctype = "text/plain"
        /\ conn[other].resp.bytes = S(<<"h", "i">>)

\* C5: a request whose target does not exist, or whose metadata cannot be
\* obtained, gets status 404 with the same fixed plain-text body, and no
\* read or directory enumeration is attempted.
C5_NotFoundFixedBody ==
    \A c \in DOMAIN conn :
        (Served(c) /\ conn[c].ops # <<>> /\ (~Target(c).found \/ ~conn[c].ops[1].ok))
        => /\ conn[c].resp.status = 404
           /\ conn[c].resp.text = "Not found"
           /\ conn[c].resp.ctype = "text/plain; charset=utf-8"
           /\ conn[c].resp.bytes = <<>>
           /\ conn[c].resp.html = <<>>
           /\ Len(conn[c].ops) = 1
           /\ conn[c].ops[1].op = "metadata"

\* C5 witness: a request for a path that names nothing was answered 404.
C5_Witness ==
    \E c \in DOMAIN conn :
        /\ Served(c)
        /\ conn[c].path # <<>>
        /\ conn[c].ops # <<>>
        /\ ~Target(c).found
        /\ conn[c].resp.status = 404

\* C6: the items of a listing are exactly the immediate children of the
\* listed directory, one item per child, in ascending byte-wise order of
\* name.  (Stated of the listings of a filesystem that never changed, which
\* the claim includes.)
C6_ListingIsSortedChildren ==
    \A c \in DOMAIN conn :
        (Listing(c) /\ ~changed) =>
            LET items == conn[c].items IN
            /\ {items[i].name : i \in 1..Len(items)} = ChildNames(fs, Target(c).path)
            /\ Len(items) = Cardinality(ChildNames(fs, Target(c).path))
            /\ \A i \in 1..(Len(items) - 1) : BytesLess(items[i].name, items[i + 1].name)
            /\ Len(ListItems(conn[c].resp.html)) = Len(items)

\* C7: the label of every list item is the HTML-escaped display name: it
\* holds none of < > " ', every & in it starts one of the five entities, and
\* unescaping it gives back the display name exactly.
C7_LabelEscaped ==
    \A c \in DOMAIN conn :
        Listing(c) =>
            \A i \in 1..Len(conn[c].items) :
                LET label == ListItems(conn[c].resp.html)[i].text IN
                /\ \A k \in 1..Len(label) : label[k] \notin {LT, GT, QUOT, APOS}
                /\ \A k \in 1..Len(label) :
                       label[k] = AMP => \E e \in Entities : IsPrefix(e, Drop(label, k - 1))
                /\ HtmlUnescape(label) = Display(conn[c].items[i])

\* C7 witness: an entry whose name is the text "&lt;" was listed, and its
\* label is "&amp;lt;".
C7_Witness ==
    \E c \in DOMAIN conn :
        /\ Listing(c)
        /\ Len(conn[c].items) = 1
        /\ conn[c].items[1].name = EntLt
        /\ ListItems(conn[c].resp.html)[1].text = EntAmp \o S(<<"l", "t", ";">>)

\* C8: the href of every list item, without the trailing "/" of a directory
\* entry, percent-decodes to exactly the entry's name; it consists of
\* unreserved characters and %XX escapes only, and href and label differ
\* whenever HTML escaping or percent encoding changes the name.
C8_HrefRoundTrip ==
    \A c \in DOMAIN conn :
        Listing(c) =>
            \A i \in 1..Len(conn[c].items) :
                LET item == conn[c].items[i]
                    piece == ListItems(conn[c].resp.html)[i]
                    href == HrefName(item, piece.href)
                IN /\ UrlDecode(href) = [ok |-> TRUE, s |-> item.name]
                   /\ percent_decode(href) = item.name
                   /\ item.is_dir <=> IsSuffix(<<SLASH>>, piece.href)
                   /\ \A k \in 1..Len(href) : href[k] = PCT \/ IsUnreserved(href[k])
                   /\ piece.text # Display(item) => piece.href # piece.text
                   /\ href # item.name => piece.text # piece.href

\* C8 witness: an entry named "%20#" (a percent sign, "20" and a hash) was
\* listed with the href "%2520%23".
C8_Witness ==
    \E c \in DOMAIN conn :
        /\ Listing(c)
        /\ Len(conn[c].items) = 1
        /\ conn[c].items[1].name = S(<<"%", "2", "0", "#">>)
        /\ ListItems(conn[c].resp.html)[1].href = S(<<"%", "2", "5", "2", "0", "%", "2", "3">>)

\* C9: when the enumeration of a directory fails, at the opening of the
\* directory or at a later call of next_entry, the response is 403.
C9_EnumerationFailureIs403 ==
    \A c \in DOMAIN conn :
        (Served(c) /\ \E k \in 1..Len(conn[c].ops) :
                          /\ conn[c].ops[k].op \in {"read_dir", "next_entry"}
                          /\ ~conn[c].ops[k].ok)
        => conn[c].resp.status = 403

\* C10: following the href of a listed entry from the listing's own URL
\* resolves to exactly that entry of the listed directory.  (Stated of the
\* links of listings during which no awaited call failed, followed in a
\* filesystem that never changed, with no call failing on a node that
\* exists, which the claim includes.)
C10_LinksFollowable ==
    \A c \in DOMAIN conn :
        (/\ conn[c].link.followed
         /\ conn[c].link.clean
         /\ ~changed
         /\ conn[c].ops # <<>>
         /\ NoFault(conn[c]))
        => /\ Target(c) = [found |-> TRUE, path |-> Append(conn[c].link.dir, conn[c].link.name)]
           /\ is_dir_entry(fs, Target(c).path) = conn[c].link.is_dir

====
